---- MODULE Spec2Model ----
(***************************************************************************)
(* Model of backend/server-langchain.js: the Express handlers /upload,     *)
(* /add-website, /query, /generate-answer, /stats and /clear over the one  *)
(* shared MemoryVectorStore.                                               *)
(*                                                                         *)
(* Node runs one handler at a time and switches handlers only at an await, *)
(* so every action below is the synchronous code between two awaits of one *)
(* handler.  The embedding model, the loaders, the text splitter and the   *)
(* language model are outside the repository: their results are inputs,    *)
(* chosen with \E, and each of their calls may also throw.                 *)
(*                                                                         *)
(* A JavaScript string is a sequence of one-character strings, so that     *)
(* toLowerCase, trim, split, includes and substring are computed.          *)
(*                                                                         *)
(* Left out: GET /health and the 404 handler, which read no store and      *)
(* write nothing, and the text of the prompt handed to llm.invoke, which   *)
(* no response carries.                                                    *)
(***************************************************************************)
EXTENDS Integers, Sequences, FiniteSets, Bags, TLC

\* vectorStore    vectorStore.memoryVectors: the stored chunks, oldest first
\* retrievalChain whether initializeLangChain built the chain (GROQ_API_KEY set)
\* h              the handler activations in flight
\* batches        the addDocuments calls whose chunks the store holds; the
\*                program keeps no such count, it only bounds the model
VARIABLES vectorStore, retrievalChain, h, batches

vars == <<vectorStore, retrievalChain, h, batches>>

----------------------------------------------------------------------------
(* Bounds of the model *)

\* handler activations that may be in flight together
MaxInFlight == 2

\* the load the model explores: a request in flight weighs 2, a batch of
\* chunks held by the store weighs 1
MaxLoad == 5

----------------------------------------------------------------------------
(* Program constants *)

\* asRetriever({ k: 8 }) of /generate-answer
AnswerK == 8

\* asRetriever({ k: 3 }) of the catch block of /generate-answer
FallbackK == 3

\* const { question, k = 5 } = req.body of /query
DefaultQueryK == 5

\* word.length > 3
MinWordLength == 3

\* doc.pageContent.trim().length > 50
MinContentLength == 50

\* doc.pageContent.substring(0, 200)
PreviewLength == 200

\* doc.pageContent.substring(0, 300)
FallbackPreviewLength == 300

ModelName == "deepseek-r1-distill-llama-70b"

----------------------------------------------------------------------------
(* Strings *)

\* chunk text of the refund-policy scenario; 75 characters
RefundText ==
  <<"O", "u", "r", " ", "r", "e", "f", "u", "n", "d", " ", "p", "o", "l", "i", "c",
     "y", " ", "a", "l", "l", "o", "w", "s", " ", "r", "e", "t", "u", "r", "n", "s",
     " ", "w", "i", "t", "h", "i", "n", " ", "3", "0", " ", "d", "a", "y", "s", " ",
     "o", "f", " ", "p", "u", "r", "c", "h", "a", "s", "e", " ", "f", "o", "r", " ",
     "a", "n", "y", " ", "r", "e", "a", "s", "o", "n", ".">>

\* 10 characters, no word of any question; 10 characters
HelloText ==
  <<"H", "e", "l", "l", "o", " ", "t", "e", "a", "m">>

\* 56 characters, 6 after trim(); 56 characters
PaddedText ==
  <<"R", "e", "f", "u", "n", "d", " ", " ", " ", " ", " ", " ", " ", " ", " ", " ",
     " ", " ", " ", " ", " ", " ", " ", " ", " ", " ", " ", " ", " ", " ", " ", " ",
     " ", " ", " ", " ", " ", " ", " ", " ", " ", " ", " ", " ", " ", " ", " ", " ",
     " ", " ", " ", " ", " ", " ", " ", " ">>

\* 54 characters, no word of any question; 54 characters
ShippingText ==
  <<"S", "h", "i", "p", "p", "i", "n", "g", " ", "t", "a", "k", "e", "s", " ", "f",
     "i", "v", "e", " ", "b", "u", "s", "i", "n", "e", "s", "s", " ", "d", "a", "y",
     "s", " ", "a", "c", "r", "o", "s", "s", " ", "e", "v", "e", "r", "y", " ", "r",
     "e", "g", "i", "o", "n", ".">>

\* upper case only; 62 characters
UpperText ==
  <<"R", "E", "F", "U", "N", "D", " ", "R", "E", "Q", "U", "E", "S", "T", "S", " ",
     "A", "R", "E", " ", "H", "A", "N", "D", "L", "E", "D", " ", "B", "Y", " ", "T",
     "H", "E", " ", "S", "U", "P", "P", "O", "R", "T", " ", "D", "E", "S", "K", " ",
     "E", "V", "E", "R", "Y", " ", "M", "O", "R", "N", "I", "N", "G", ".">>

\* holds "policy" but not "policy?"; 68 characters
PrivacyText ==
  <<"T", "h", "e", " ", "p", "r", "i", "v", "a", "c", "y", " ", "p", "o", "l", "i",
     "c", "y", " ", "d", "e", "s", "c", "r", "i", "b", "e", "s", " ", "h", "o", "w",
     " ", "c", "u", "s", "t", "o", "m", "e", "r", " ", "d", "a", "t", "a", " ", "i",
     "s", " ", "s", "t", "o", "r", "e", "d", " ", "a", "n", "d", " ", "s", "h", "a",
     "r", "e", "d", ".">>

\* question of the spec's scenario; 26 characters
RefundQuestion ==
  <<"W", "h", "a", "t", " ", "i", "s", " ", "t", "h", "e", " ", "r", "e", "f", "u",
     "n", "d", " ", "p", "o", "l", "i", "c", "y", "?">>

\* no word longer than 3 characters; 8 characters
ShortQuestion ==
  <<"i", "s", " ", "i", "t", " ", "o", "k">>

\* only white space; 3 characters
BlankQuestion ==
  <<" ", " ", " ">>

\* line 397; 165 characters
NoContextAnswer ==
  <<"I", " ", "c", "o", "u", "l", "d", "n", "'", "t", " ", "f", "i", "n", "d", " ",
     "r", "e", "l", "e", "v", "a", "n", "t", " ", "i", "n", "f", "o", "r", "m", "a",
     "t", "i", "o", "n", " ", "i", "n", " ", "t", "h", "e", " ", "k", "n", "o", "w",
     "l", "e", "d", "g", "e", " ", "b", "a", "s", "e", " ", "t", "o", " ", "a", "n",
     "s", "w", "e", "r", " ", "y", "o", "u", "r", " ", "q", "u", "e", "s", "t", "i",
     "o", "n", ".", " ", "P", "l", "e", "a", "s", "e", " ", "t", "r", "y", " ", "r",
     "e", "p", "h", "r", "a", "s", "i", "n", "g", " ", "y", "o", "u", "r", " ", "q",
     "u", "e", "s", "t", "i", "o", "n", " ", "o", "r", " ", "a", "d", "d", " ", "m",
     "o", "r", "e", " ", "r", "e", "l", "e", "v", "a", "n", "t", " ", "d", "o", "c",
     "u", "m", "e", "n", "t", "s", " ", "t", "o", " ", "t", "h", "e", " ", "s", "y",
     "s", "t", "e", "m", ".">>

\* line 473; 134 characters
FallbackNoContextAnswer ==
  <<"I", " ", "d", "o", "n", "'", "t", " ", "h", "a", "v", "e", " ", "r", "e", "l",
     "e", "v", "a", "n", "t", " ", "i", "n", "f", "o", "r", "m", "a", "t", "i", "o",
     "n", " ", "i", "n", " ", "m", "y", " ", "k", "n", "o", "w", "l", "e", "d", "g",
     "e", " ", "b", "a", "s", "e", " ", "t", "o", " ", "a", "n", "s", "w", "e", "r",
     " ", "y", "o", "u", "r", " ", "q", "u", "e", "s", "t", "i", "o", "n", ".", " ",
     "P", "l", "e", "a", "s", "e", " ", "a", "d", "d", " ", "m", "o", "r", "e", " ",
     "d", "o", "c", "u", "m", "e", "n", "t", "s", " ", "o", "r", " ", "t", "r", "y",
     " ", "a", " ", "d", "i", "f", "f", "e", "r", "e", "n", "t", " ", "q", "u", "e",
     "s", "t", "i", "o", "n", ".">>

\* lines 457-458; 58 characters
FallbackPrefix ==
  <<"B", "a", "s", "e", "d", " ", "o", "n", " ", "t", "h", "e", " ", "a", "v", "a",
     "i", "l", "a", "b", "l", "e", " ", "i", "n", "f", "o", "r", "m", "a", "t", "i",
     "o", "n", " ", "i", "n", " ", "m", "y", " ", "k", "n", "o", "w", "l", "e", "d",
     "g", "e", " ", "b", "a", "s", "e", ":", "\n", "\n">>

\* lines 460-463; 262 characters
FallbackSuffix ==
  <<"\n", "\n", "N", "o", "t", "e", ":", " ", "I", "'", "m", " ", "p", "r", "o", "v",
     "i", "d", "i", "n", "g", " ", "t", "h", "i", "s", " ", "i", "n", "f", "o", "r",
     "m", "a", "t", "i", "o", "n", " ", "d", "i", "r", "e", "c", "t", "l", "y", " ",
     "f", "r", "o", "m", " ", "t", "h", "e", " ", "s", "t", "o", "r", "e", "d", " ",
     "d", "o", "c", "u", "m", "e", "n", "t", "s", ".", " ", "F", "o", "r", " ", "m",
     "o", "r", "e", " ", "d", "e", "t", "a", "i", "l", "e", "d", " ", "a", "n", "a",
     "l", "y", "s", "i", "s", ",", " ", "p", "l", "e", "a", "s", "e", " ", "e", "n",
     "s", "u", "r", "e", " ", "t", "h", "e", " ", "G", "r", "o", "q", " ", "A", "P",
     "I", " ", "i", "s", " ", "p", "r", "o", "p", "e", "r", "l", "y", " ", "c", "o",
     "n", "f", "i", "g", "u", "r", "e", "d", ".", "\n", "\n", "W", "o", "u", "l", "d",
     " ", "y", "o", "u", " ", "l", "i", "k", "e", " ", "m", "e", " ", "t", "o", " ",
     "s", "e", "a", "r", "c", "h", " ", "f", "o", "r", " ", "m", "o", "r", "e", " ",
     "s", "p", "e", "c", "i", "f", "i", "c", " ", "i", "n", "f", "o", "r", "m", "a",
     "t", "i", "o", "n", " ", "o", "r", " ", "w", "o", "u", "l", "d", " ", "y", "o",
     "u", " ", "l", "i", "k", "e", " ", "t", "o", " ", "a", "d", "d", " ", "m", "o",
     "r", "e", " ", "r", "e", "l", "e", "v", "a", "n", "t", " ", "d", "o", "c", "u",
     "m", "e", "n", "t", "s", "?">>

\* line 455; 7 characters
FallbackSeparator ==
  <<"\n", "\n", "-", "-", "-", "\n", "\n">>

\* line 437; 3 characters
PreviewEllipsis ==
  <<".", ".", ".">>

\* a completion of the language model; 36 characters
ModelOutput ==
  <<"R", "e", "t", "u", "r", "n", "s", " ", "a", "r", "e", " ", "a", "c", "c", "e",
     "p", "t", "e", "d", " ", "w", "i", "t", "h", "i", "n", " ", "3", "0", " ", "d",
     "a", "y", "s", ".">>

toLowerCaseChar(c) ==
  CASE c = "A" -> "a"
    [] c = "B" -> "b"
    [] c = "C" -> "c"
    [] c = "D" -> "d"
    [] c = "E" -> "e"
    [] c = "F" -> "f"
    [] c = "G" -> "g"
    [] c = "H" -> "h"
    [] c = "I" -> "i"
    [] c = "J" -> "j"
    [] c = "K" -> "k"
    [] c = "L" -> "l"
    [] c = "M" -> "m"
    [] c = "N" -> "n"
    [] c = "O" -> "o"
    [] c = "P" -> "p"
    [] c = "Q" -> "q"
    [] c = "R" -> "r"
    [] c = "S" -> "s"
    [] c = "T" -> "t"
    [] c = "U" -> "u"
    [] c = "V" -> "v"
    [] c = "W" -> "w"
    [] c = "X" -> "x"
    [] c = "Y" -> "y"
    [] c = "Z" -> "z"
    [] OTHER -> c


Min(S) == CHOOSE x \in S : \A y \in S : x <= y

Max(S) == CHOOSE x \in S : \A y \in S : x >= y

\* String.prototype.toLowerCase
toLowerCase(s) == [i \in 1..Len(s) |-> toLowerCaseChar(s[i])]

IsWhiteSpace(c) == c \in {" ", "\n", "\t"}

\* String.prototype.trim
trim(s) ==
  LET keep == {i \in 1..Len(s) : ~IsWhiteSpace(s[i])}
  IN  IF keep = {} THEN <<>> ELSE SubSeq(s, Min(keep), Max(keep))

\* String.prototype.split(' '): the pieces between single spaces, empty ones kept
RECURSIVE split(_)
split(s) ==
  LET at == {i \in 1..Len(s) : s[i] = " "}
  IN  IF at = {} THEN <<s>>
      ELSE <<SubSeq(s, 1, Min(at) - 1)>> \o split(SubSeq(s, Min(at) + 1, Len(s)))

\* String.prototype.includes
includes(s, w) == \E i \in 0..(Len(s) - Len(w)) : SubSeq(s, i + 1, i + Len(w)) = w

\* String.prototype.substring(0, n)
substring(s, n) == SubSeq(s, 1, IF n < Len(s) THEN n ELSE Len(s))

\* Array.prototype.slice(0, k): a negative k counts from the end
slice(a, k) ==
  LET end == IF k < 0 THEN (IF Len(a) + k < 0 THEN 0 ELSE Len(a) + k)
             ELSE (IF k < Len(a) THEN k ELSE Len(a))
  IN  SubSeq(a, 1, end)

\* Array.prototype.join
RECURSIVE join(_, _)
join(a, sep) ==
  IF a = <<>> THEN <<>>
  ELSE IF Len(a) = 1 THEN a[1]
  ELSE a[1] \o sep \o join(Tail(a), sep)

----------------------------------------------------------------------------
(* Documents.  A chunk is named by its index in Corpus; vec is the side of *)
(* the embedding space the embedding model puts its text on.               *)

Corpus ==
  <<[pageContent |-> RefundText,   metadata |-> [source |-> "file", filename |-> "policy.txt"], vec |-> 0],
    [pageContent |-> HelloText,    metadata |-> [source |-> "file", filename |-> "faq.csv"],    vec |-> 1],
    [pageContent |-> PaddedText,   metadata |-> [source |-> "file", filename |-> "faq.csv"],    vec |-> 1],
    [pageContent |-> ShippingText, metadata |-> [source |-> "file", filename |-> "faq.csv"],    vec |-> 1],
    [pageContent |-> UpperText,    metadata |-> [source |-> "website", url |-> "https://shop.example/help", hostname |-> "shop.example"], vec |-> 1],
    [pageContent |-> PrivacyText,  metadata |-> [source |-> "website", url |-> "https://shop.example/help", hostname |-> "shop.example"], vec |-> 0]>>

ChunkIds == DOMAIN Corpus

pageContent(id) == Corpus[id].pageContent

\* What multer hands to /upload (req.file), with what the loader and the text
\* splitter make of the file: docs is the number of documents loaded.
Files ==
  [policy |-> [docs |-> 1, chunks |-> <<1>>],
   faq    |-> [docs |-> 8, chunks |-> <<4, 2, 3, 4, 2, 3, 4, 2>>],
   blank  |-> [docs |-> 1, chunks |-> <<>>],
   header |-> [docs |-> 0, chunks |-> <<>>]]

\* req.file of an /upload request; "none" is a request without the field
\* 'file', "rejected" a file the fileFilter of multer refuses
UploadInputs == DOMAIN Files \cup {"none", "rejected"}

Pages ==
  [help  |-> [docs |-> 1, chunks |-> <<5, 6>>],
   empty |-> [docs |-> 0, chunks |-> <<>>]]

\* req.body.url of an /add-website request
UrlInputs == DOMAIN Pages \cup {"none", "malformed"}

\* req.body of /query and /generate-answer
QuestionInputs == {RefundQuestion, ShortQuestion, BlankQuestion, <<>>}

KInputs == {-1, 0}

QueryBodies ==
  {<<>>} \cup [question : QuestionInputs \ {ShortQuestion}]
         \cup [question : QuestionInputs \ {ShortQuestion}, k : KInputs]

AnswerBodies == {<<>>} \cup [question : QuestionInputs]

Has(body, field) == field \in DOMAIN body

----------------------------------------------------------------------------
(* The vector store (MemoryVectorStore) *)

\* similarity of a stored vector to the query vector
similarity(queryVec, id) == IF Corpus[id].vec = queryVec THEN 1 ELSE 0

\* similaritySearchVectorWithScore: every stored vector scored against the
\* query, sorted by descending similarity (stable), cut to k
similaritySearch(store, queryVec, k) ==
  slice(SelectSeq(store, LAMBDA id : similarity(queryVec, id) = 1)
          \o SelectSeq(store, LAMBDA id : similarity(queryVec, id) = 0), k)

QueryVecs == {0, 1}

----------------------------------------------------------------------------
(* /generate-answer: the relevance filter *)

\* query.split(' ').filter(word => word.length > 3)
queryWords(question) ==
  SelectSeq(split(toLowerCase(question)), LAMBDA word : Len(word) > MinWordLength)

\* the predicate of sourceDocs.filter
IsRelevant(id, question) ==
  /\ \E i \in DOMAIN queryWords(question) :
        includes(toLowerCase(pageContent(id)), queryWords(question)[i])
  /\ Len(trim(pageContent(id))) > MinContentLength

relevantDocsOf(sourceDocs, question) ==
  SelectSeq(sourceDocs, LAMBDA id : IsRelevant(id, question))

----------------------------------------------------------------------------
(* State *)

NoResponse == [status |-> 0]

\* h is the bag of handler activations in flight.  An activation holds the
\* request (kind, file, body), the handler's local variables, where it is
\* suspended (pc), the response it sent (res), and four records the handlers
\* do not keep: searches, the calls of the store's similarity search;
\* invoked, the calls of llm.invoke; stored, the chunks its addDocuments
\* appended to the store; and overtaken, whether a /clear has answered since
\* this ingestion or search request arrived.
Fresh ==
  [kind |-> "none", pc |-> "start", file |-> "none", body |-> <<>>,
   question |-> <<>>, k |-> 0, sourceDocs |-> <<>>, relevantDocs |-> <<>>,
   splitDocs |-> <<>>, error |-> "none", searches |-> 0, invoked |-> 0,
   stored |-> 0, overtaken |-> FALSE, res |-> NoResponse]

\* startServer listens only after initializeLangChain has set vectorStore
VectorStoreInitialized == TRUE

Init ==
  /\ vectorStore = <<>>
  /\ retrievalChain \in BOOLEAN
  /\ h = EmptyBag
  /\ batches = 0

Requests == BagToSet(h)

\* a response is delivered as soon as it is sent
Quiet == \A r \in Requests : r.pc \notin {"done", "hung"}

Load == 2 * BagCardinality(h) + batches

CanStart ==
  /\ BagCardinality(h) < MaxInFlight
  /\ Quiet
  /\ Load + 2 <= MaxLoad

\* the store can take the documents of one more addDocuments
CanAdd(docs) == docs # <<>> => Load + 1 <= MaxLoad

added(docs) == IF docs # <<>> THEN batches + 1 ELSE batches

At(r, kind, pc) == r.kind = kind /\ r.pc = pc /\ Quiet

\* res.status(status).json(body)
Sent(rec, status, body) ==
  [rec EXCEPT !.pc = "done", !.res = [status |-> status, body |-> body]]

\* the handler's promise rejects: Express 4 sends nothing
Hung(rec) == [rec EXCEPT !.pc = "hung"]

\* a request arrives and its handler runs to its first await or response
Begin(rec) == h' = h (+) SetToBag({rec})

\* activation r runs on to its next await or response
Set(r, rec) == h' = (h (-) SetToBag({r})) (+) SetToBag({rec})

----------------------------------------------------------------------------
(* POST /upload *)

\* the catch block: the temporary file is deleted if it is still there, and
\* an unlinkSync that throws here leaves the handler
UploadCatch(rec, unlinkThrows) ==
  IF unlinkThrows
  THEN Hung(rec)
  ELSE Sent(rec, 500, [error |-> "Failed to upload file: "])

Upload(input) ==
  /\ CanStart
  /\ LET rec == [Fresh EXCEPT !.kind = "upload", !.file = input]
     IN  Begin(IF input = "rejected"
                THEN Sent(rec, 500, [error |-> "Internal server error"])
                ELSE IF input = "none"
                THEN Sent(rec, 400, [error |-> "No file uploaded."])
                ELSE IF ~VectorStoreInitialized
                THEN Sent(rec, 500, [error |-> "Vector store not initialized"])
                ELSE [rec EXCEPT !.pc = "loadDocument"])
  /\ UNCHANGED <<vectorStore, retrievalChain, batches>>

UploadLoaded(r) ==
  /\ At(r, "upload", "loadDocument")
  /\ \E loaded, unlinkThrows \in BOOLEAN :
       Set(r, IF ~loaded
              THEN UploadCatch(r, unlinkThrows)
              ELSE IF Files[r.file].docs = 0
              THEN Sent(r, 400, [error |-> "No content found in file"])
              ELSE [r EXCEPT !.pc = "splitDocuments"])
  /\ UNCHANGED <<vectorStore, retrievalChain, batches>>

UploadSplit(r) ==
  /\ At(r, "upload", "splitDocuments")
  /\ \E split_, unlinkThrows \in BOOLEAN :
       Set(r, IF ~split_
              THEN UploadCatch(r, unlinkThrows)
              ELSE [r EXCEPT !.pc = "addDocuments",
                                !.splitDocs = Files[r.file].chunks])
  /\ UNCHANGED <<vectorStore, retrievalChain, batches>>

\* MemoryVectorStore.addDocuments: the embeddings are awaited, then the
\* vectors are appended in one assignment
addDocuments(store, docs) == store \o docs

UploadAdded(r) ==
  /\ At(r, "upload", "addDocuments")
  /\ CanAdd(r.splitDocs)
  /\ \E embedded, unlinkThrows, unlinkAgainThrows \in BOOLEAN :
       /\ vectorStore' = IF embedded THEN addDocuments(vectorStore, r.splitDocs)
                         ELSE vectorStore
       /\ batches' = IF embedded THEN added(r.splitDocs) ELSE batches
       /\ LET rec == [r EXCEPT !.stored = IF embedded THEN Len(r.splitDocs) ELSE 0]
          IN
          Set(r, IF ~embedded \/ unlinkThrows
                 THEN UploadCatch(rec, unlinkAgainThrows)
                 ELSE Sent(rec, 200,
                           [message |-> "File processed & stored successfully",
                            chunks |-> Len(r.splitDocs),
                            filename |-> r.file]))
  /\ UNCHANGED retrievalChain

----------------------------------------------------------------------------
(* POST /add-website *)

AddWebsite(url) ==
  /\ CanStart
  /\ LET rec == [Fresh EXCEPT !.kind = "website", !.file = url]
     IN  Begin(IF url = "none"
                THEN Sent(rec, 400, [error |-> "No URL provided"])
                ELSE IF ~VectorStoreInitialized
                THEN Sent(rec, 500, [error |-> "Vector store not initialized"])
                ELSE IF url = "malformed"
                THEN Sent(rec, 400, [error |-> "Invalid URL format"])
                ELSE [rec EXCEPT !.pc = "load"])
  /\ UNCHANGED <<vectorStore, retrievalChain, batches>>

WebsiteCatch(rec) == Sent(rec, 500, [error |-> "Failed to add website: "])

WebsiteLoaded(r) ==
  /\ At(r, "website", "load")
  /\ \E loaded \in BOOLEAN :
       Set(r, IF ~loaded
              THEN WebsiteCatch(r)
              ELSE IF Pages[r.file].docs = 0
              THEN Sent(r, 400, [error |-> "No content found on the website"])
              ELSE [r EXCEPT !.pc = "splitDocuments"])
  /\ UNCHANGED <<vectorStore, retrievalChain, batches>>

WebsiteSplit(r) ==
  /\ At(r, "website", "splitDocuments")
  /\ \E split_ \in BOOLEAN :
       Set(r, IF ~split_
              THEN WebsiteCatch(r)
              ELSE [r EXCEPT !.pc = "addDocuments",
                                !.splitDocs = Pages[r.file].chunks])
  /\ UNCHANGED <<vectorStore, retrievalChain, batches>>

WebsiteAdded(r) ==
  /\ At(r, "website", "addDocuments")
  /\ CanAdd(r.splitDocs)
  /\ \E embedded \in BOOLEAN :
       /\ vectorStore' = IF embedded THEN addDocuments(vectorStore, r.splitDocs)
                         ELSE vectorStore
       /\ batches' = IF embedded THEN added(r.splitDocs) ELSE batches
       /\ LET rec == [r EXCEPT !.stored = IF embedded THEN Len(r.splitDocs) ELSE 0]
          IN
          Set(r, IF ~embedded
                 THEN WebsiteCatch(rec)
                 ELSE Sent(rec, 200,
                           [message |-> "Website content processed & stored successfully",
                            chunks |-> Len(r.splitDocs),
                            url |-> r.file]))
  /\ UNCHANGED retrievalChain

----------------------------------------------------------------------------
(* POST /query *)

\* !question || !question.trim()
NoQuestion(body) ==
  \/ ~Has(body, "question")
  \/ body.question = <<>>
  \/ trim(body.question) = <<>>

Query(body) ==
  /\ CanStart
  /\ LET rec == [Fresh EXCEPT !.kind = "query", !.body = body]
     IN  Begin(IF NoQuestion(body)
                THEN Sent(rec, 400, [error |-> "No question provided"])
                ELSE IF ~VectorStoreInitialized
                THEN Sent(rec, 500, [error |-> "Vector store not initialized"])
                ELSE [rec EXCEPT !.pc = "similaritySearchWithScore",
                                 !.question = body.question,
                                 !.k = IF Has(body, "k") THEN body.k ELSE DefaultQueryK,
                                 !.searches = 1])
  /\ UNCHANGED <<vectorStore, retrievalChain, batches>>

\* results.map(([doc, score], index) => ({ ... }))
formattedResults(results, queryVec) ==
  [i \in DOMAIN results |->
     [id |-> <<"result-", i - 1>>,
      content |-> pageContent(results[i]),
      metadata |-> Corpus[results[i]].metadata,
      score |-> similarity(queryVec, results[i]),
      distance |-> 1 - similarity(queryVec, results[i])]]

\* a variant that answers from a default document while the store is empty
QueryResultsOrDefault(store, queryVec, k) ==
  IF store = <<>> THEN <<1>> ELSE similaritySearch(store, queryVec, k)

QueryResults(store, queryVec, k) == similaritySearch(store, queryVec, k)

QuerySearched(r) ==
  /\ At(r, "query", "similaritySearchWithScore")
  /\ \E found \in BOOLEAN, queryVec \in QueryVecs :
       LET results == QueryResults(vectorStore, queryVec, r.k)
       IN  Set(r, IF ~found
                  THEN Sent([r EXCEPT !.error = "similaritySearchWithScore failed"],
                            500, [error |-> "Failed to query documents: "])
                  ELSE Sent([r EXCEPT !.sourceDocs = results], 200,
                            [question |-> r.question,
                             results |-> formattedResults(results, queryVec),
                             totalResults |-> Len(results)]))
  /\ UNCHANGED <<vectorStore, retrievalChain, batches>>

----------------------------------------------------------------------------
(* POST /generate-answer *)

\* relevantDocs.map(doc => ({ ...doc.metadata, preview: ... }))
SourceWithPreview(id) ==
  [f \in DOMAIN Corpus[id].metadata \cup {"preview"} |->
     IF f = "preview"
     THEN substring(pageContent(id), PreviewLength) \o PreviewEllipsis
     ELSE Corpus[id].metadata[f]]

\* a variant that lists every retrieved chunk, filtered or not
SourcesOfRetrieved(sourceDocs, relevantDocs) ==
  [i \in DOMAIN sourceDocs |-> SourceWithPreview(sourceDocs[i])]

SuccessSources(sourceDocs, relevantDocs) ==
  [i \in DOMAIN relevantDocs |-> SourceWithPreview(relevantDocs[i])]

\* a variant of the no-context response that reports context
NoContextResponseFlagged ==
  [answer |-> NoContextAnswer, sources |-> <<>>, model |-> ModelName,
   contextFound |-> TRUE]

\* the response of lines 396-401
NoContextResponse ==
  [answer |-> NoContextAnswer, sources |-> <<>>, model |-> ModelName,
   contextFound |-> FALSE]

\* the response of lines 433-442
SuccessResponse(answer, sourceDocs, relevantDocs) ==
  [answer |-> answer, sources |-> SuccessSources(sourceDocs, relevantDocs),
   model |-> ModelName, contextFound |-> TRUE, chunksUsed |-> Len(relevantDocs)]

\* docs.map(doc => doc.pageContent.substring(0, 300)).join('\n\n---\n\n')
contextSummary(docs) ==
  join([i \in DOMAIN docs |-> substring(pageContent(docs[i]), FallbackPreviewLength)],
       FallbackSeparator)

fallbackAnswer(docs) == FallbackPrefix \o contextSummary(docs) \o FallbackSuffix

\* the responses of lines 465-477
FallbackResponse(docs) ==
  IF Len(docs) > 0
  THEN [answer |-> fallbackAnswer(docs),
        sources |-> [i \in DOMAIN docs |-> Corpus[docs[i]].metadata],
        model |-> "fallback-enhanced", contextFound |-> TRUE]
  ELSE [answer |-> FallbackNoContextAnswer, sources |-> <<>>,
        model |-> "fallback", contextFound |-> FALSE]

\* a variant in which question is declared before try
QuestionDeclaredBeforeTry == TRUE

\* const { question } = req.body is declared in the block of try (line 368):
\* the catch block (line 450) reads a name that is not in its scope, which
\* throws a ReferenceError before getRelevantDocuments is called
QuestionInCatchScope == FALSE

\* the catch block of lines 444-482, entered with the error that was thrown
AnswerCatch(r, rec) ==
  IF QuestionInCatchScope
  THEN \E found \in BOOLEAN, queryVec \in QueryVecs :
         Set(r, IF ~found
                THEN Sent([rec EXCEPT !.searches = @ + 1], 500,
                          [error |-> <<"Failed to generate answer: ", rec.error>>])
                ELSE Sent([rec EXCEPT !.searches = @ + 1], 200,
                          FallbackResponse(
                            similaritySearch(vectorStore, queryVec, FallbackK))))
  ELSE Set(r, Sent(rec, 500, [error |-> <<"Failed to generate answer: ", rec.error>>]))

\* !retrievalChain
ChainMissing == ~retrievalChain

GenerateAnswer(body) ==
  /\ CanStart
  /\ LET rec == [Fresh EXCEPT !.kind = "answer", !.body = body]
     IN  Begin(IF NoQuestion(body)
                THEN Sent(rec, 400, [error |-> "No question provided"])
                ELSE IF ChainMissing
                THEN Sent(rec, 500, [error |-> "Retrieval chain not available."])
                ELSE [rec EXCEPT !.pc = "getRelevantDocuments",
                                 !.question = body.question,
                                 !.searches = 1])
  /\ UNCHANGED <<vectorStore, retrievalChain, batches>>

AnswerRetrieved(r) ==
  /\ At(r, "answer", "getRelevantDocuments")
  /\ \E found \in BOOLEAN, queryVec \in QueryVecs :
       LET sourceDocs == similaritySearch(vectorStore, queryVec, AnswerK)
           relevantDocs == relevantDocsOf(sourceDocs, r.question)
           rec == [r EXCEPT !.sourceDocs = sourceDocs, !.relevantDocs = relevantDocs]
       IN  IF ~found
           THEN AnswerCatch(r, [r EXCEPT !.error = "getRelevantDocuments failed"])
           ELSE Set(r, IF Len(relevantDocs) = 0
                       THEN Sent(rec, 200, NoContextResponse)
                       ELSE [rec EXCEPT !.pc = "invoke", !.invoked = 1])
  /\ UNCHANGED <<vectorStore, retrievalChain, batches>>

AnswerInvoked(r) ==
  /\ At(r, "answer", "invoke")
  /\ \E completed \in BOOLEAN :
       IF ~completed
       THEN AnswerCatch(r, [r EXCEPT !.error = "invoke failed"])
       ELSE Set(r, Sent(r, 200,
                        SuccessResponse(ModelOutput, r.sourceDocs, r.relevantDocs)))
  /\ UNCHANGED <<vectorStore, retrievalChain, batches>>

----------------------------------------------------------------------------
(* GET /stats and DELETE /clear *)

Stats ==
  /\ CanStart
  /\ Begin(Sent([Fresh EXCEPT !.kind = "stats"], 200,
                 [totalChunks |-> Len(vectorStore), sources |-> <<>>,
                  collectionName |-> "rag-app", vectorStoreType |-> "memory"]))
  /\ UNCHANGED <<vectorStore, retrievalChain, batches>>

\* a variant that drops only the oldest vector
clearedByShift(store) == IF store = <<>> THEN <<>> ELSE Tail(store)

\* vectorStore.memoryVectors = []
cleared(store) == <<>>

\* the ingestion and search requests in flight were received before this clear
Overtaken(r) ==
  IF r.kind \in {"upload", "website", "query"}
  THEN [r EXCEPT !.overtaken = TRUE]
  ELSE r

Clear ==
  /\ CanStart
  /\ vectorStore' = cleared(vectorStore)
  /\ batches' = 0
  /\ h' = BagOfAll(Overtaken, h)
          (+) SetToBag({Sent([Fresh EXCEPT !.kind = "clear"], 200,
                             [message |-> "Memory vector store cleared successfully"])})
  /\ UNCHANGED retrievalChain

----------------------------------------------------------------------------

\* the response has reached the client (or the client gave up on a handler
\* that sent none): the activation is over
Finish(r) ==
  /\ r.pc \in {"done", "hung"}
  /\ h' = h (-) SetToBag({r})
  /\ UNCHANGED <<vectorStore, retrievalChain, batches>>

Next ==
  \/ \E input \in UploadInputs : Upload(input)
  \/ \E r \in Requests : UploadLoaded(r)
  \/ \E r \in Requests : UploadSplit(r)
  \/ \E r \in Requests : UploadAdded(r)
  \/ \E url \in UrlInputs : AddWebsite(url)
  \/ \E r \in Requests : WebsiteLoaded(r)
  \/ \E r \in Requests : WebsiteSplit(r)
  \/ \E r \in Requests : WebsiteAdded(r)
  \/ \E body \in QueryBodies : Query(body)
  \/ \E r \in Requests : QuerySearched(r)
  \/ \E body \in AnswerBodies : GenerateAnswer(body)
  \/ \E r \in Requests : AnswerRetrieved(r)
  \/ \E r \in Requests : AnswerInvoked(r)
  \/ Stats
  \/ Clear
  \/ \E r \in Requests : Finish(r)

Spec == Init /\ [][Next]_vars

----------------------------------------------------------------------------
(* Properties *)

Done(r, kind) == r.kind = kind /\ r.pc = "done"

\* activation r holds an AnswerResult: a 200 response of /generate-answer
AnswerResult(r) == Done(r, "answer") /\ r.res.status = 200

\* C1: an answer request with a question, whose retrieval finds chunks and
\* whose language model fails (llm.invoke throws or times out, or no model is
\* configured), ends in a successful degraded AnswerResult of the fallback
\* path, never in an error response.
C1_ModelFailureEndsDegraded ==
  \A r \in Requests :
    ( /\ Done(r, "answer")
      /\ ~NoQuestion(r.body)
      /\ \/ r.error = "invoke failed"
         \/ ChainMissing /\ vectorStore # <<>> )
    => /\ r.res.status = 200
       /\ r.res.body.model \in {"fallback-enhanced", "fallback"}

\* C2: in every AnswerResult, contextFound is false exactly when no retrieved
\* chunk survived the relevance filter, and then the answer is the fixed
\* apology string and sources is empty.
C2_ContextFoundIffSurvivors ==
  \A r \in Requests :
    AnswerResult(r) =>
      /\ (r.res.body.contextFound = FALSE) <=> (r.relevantDocs = <<>>)
      /\ r.res.body.contextFound = FALSE =>
           /\ r.res.body.answer = NoContextAnswer
           /\ r.res.body.sources = <<>>

\* chunks were retrieved, none survived, and the result says so
C2_Witness ==
  \E r \in Requests :
    /\ AnswerResult(r)
    /\ r.sourceDocs # <<>>
    /\ r.relevantDocs = <<>>
    /\ r.res.body.contextFound = FALSE

\* C3: a request whose primary retrieval (k = 8) failed ends in a server
\* error that carries no answer, and no second retrieval is made for it.
C3_PrimaryRetrievalFailureIsFatal ==
  \A r \in Requests :
    (Done(r, "answer") /\ r.error = "getRelevantDocuments failed") =>
      /\ r.res.status = 500
      /\ ~Has(r.res.body, "answer")
      /\ r.searches = 1

\* the primary retrieval failed while the store holds chunks a second
\* retrieval would find
C3_Witness ==
  \E r \in Requests :
    /\ Done(r, "answer")
    /\ r.error = "getRelevantDocuments failed"
    /\ r.res.status = 500
    /\ vectorStore # <<>>

\* C4: with a language model that fails and a question with matching chunks,
\* the result has contextFound = true and model "fallback-enhanced", and its
\* answer is exactly the first-300-character previews of the chunks of the
\* k = 3 retrieval joined by the separator, made without a further model call.
C4_FallbackAnswerIsJoinedPreviews ==
  \A r \in Requests :
    (Done(r, "answer") /\ r.error = "invoke failed") =>
      /\ r.res.status = 200
      /\ r.res.body.contextFound = TRUE
      /\ r.res.body.model = "fallback-enhanced"
      /\ \E queryVec \in QueryVecs :
           r.res.body.answer =
             contextSummary(similaritySearch(vectorStore, queryVec, FallbackK))
      /\ r.invoked = 1

\* C5: /query returns the raw top-k, chunks that fail the relevance filter
\* included, and every source of an AnswerResult is a chunk that passed it.
C5_SearchUnfilteredSourcesFiltered ==
  \A r \in Requests :
    /\ (Done(r, "query") /\ r.res.status = 200) =>
         /\ r.k >= 0 =>
              r.res.body.totalResults =
                (IF r.k < Len(vectorStore) THEN r.k ELSE Len(vectorStore))
         /\ r.k >= Len(vectorStore) =>
              \A j \in DOMAIN vectorStore :
                \E i \in DOMAIN r.res.body.results :
                  r.res.body.results[i].content = pageContent(vectorStore[j])
    /\ AnswerResult(r) =>
         \A i \in DOMAIN r.res.body.sources :
           \E id \in ChunkIds :
             /\ IsRelevant(id, r.question)
             /\ r.res.body.sources[i] = SourceWithPreview(id)

\* a search result holds the 10-character chunk that shares no word with the
\* question
C5_Witness ==
  \E r \in Requests :
    /\ Done(r, "query")
    /\ r.res.status = 200
    /\ r.question = RefundQuestion
    /\ \E i \in DOMAIN r.res.body.results :
         r.res.body.results[i].content = HelloText

\* C6: every AnswerResult carries chunksUsed, at most the fan-out and equal to
\* the number of chunks that survived the relevance filter.
C6_ChunksUsedCountsSurvivors ==
  \A r \in Requests :
    AnswerResult(r) =>
      /\ Has(r.res.body, "chunksUsed")
      /\ r.res.body.chunksUsed <= AnswerK
      /\ r.res.body.chunksUsed = Len(r.relevantDocs)

\* C7: when the primary retrieval succeeds and no chunk survives, the result
\* is a 200 with contextFound = false, the fixed message, no sources and
\* model "none", and llm.invoke was not called.
C7_NoContextResult ==
  \A r \in Requests :
    ( /\ Done(r, "answer")
      /\ r.searches = 1
      /\ r.error = "none"
      /\ r.relevantDocs = <<>> )
    => /\ r.res.status = 200
       /\ r.res.body.contextFound = FALSE
       /\ r.res.body.answer = NoContextAnswer
       /\ r.res.body.sources = <<>>
       /\ r.invoked = 0
       /\ r.res.body.model = "none"

\* the store holds a chunk longer than 50 characters that contains a word of
\* the question longer than 3 characters
C8_StoreHoldsMatch(question) ==
  \E j \in DOMAIN vectorStore :
    /\ Len(pageContent(vectorStore[j])) > MinContentLength
    /\ \E i \in DOMAIN queryWords(question) :
         includes(pageContent(vectorStore[j]), queryWords(question)[i])

\* C8: an answer request with a question, over a store that holds such a
\* chunk, returns a result with contextFound = true, whatever else the store
\* holds and whether or not the language model is available.
C8_MatchInStoreGivesContext ==
  \A r \in Requests :
    ( /\ Done(r, "answer")
      /\ ~NoQuestion(r.body)
      /\ C8_StoreHoldsMatch(r.body.question) )
    => /\ r.res.status = 200
       /\ r.res.body.contextFound = TRUE

\* C9: the store changes only by one whole batch being appended or by being
\* emptied, and it is empty when /clear responds.
C9_BatchesAndClearAtomic ==
  [][ /\ \/ vectorStore' = vectorStore
         \/ \E r \in Requests :
              /\ r.pc = "addDocuments"
              /\ vectorStore' = vectorStore \o r.splitDocs
         \/ vectorStore' = <<>> /\ \E r \in BagToSet(h') : Done(r, "clear")
      /\ \A r \in BagToSet(h') : Done(r, "clear") => vectorStore' = <<>>
    ]_vars

\* a search that was answered while an upload is suspended in addDocuments
\* returns both chunks of the batch that /add-website appended
C9_Witness ==
  \E r, s \in Requests :
    /\ Done(r, "query")
    /\ r.res.status = 200
    /\ r.res.body.totalResults = 2
    /\ vectorStore = Pages.help.chunks
    /\ s.kind = "upload" /\ s.pc = "addDocuments"

\* k of the request, when it gives one
C10_BadK(body) == Has(body, "k") /\ body.k <= 0

\* C10: a /query or /generate-answer request without a question (missing or
\* blank), or with a k that is not positive, gets a 400 and never reaches the
\* store's similarity search.
C10_InvalidInputRejected ==
  \A r \in Requests :
    ( /\ r.kind \in {"query", "answer"}
      /\ NoQuestion(r.body) \/ C10_BadK(r.body) )
    => /\ r.searches = 0
       /\ r.pc = "done"
       /\ r.res.status = 400

\* activation r has answered an ingestion request (/upload or /add-website)
Ingested(r) == Done(r, "upload") \/ Done(r, "website")

\* the chunks the loader and the splitter make of the input of r
ChunksToStore(r) ==
  IF r.kind = "upload" THEN Files[r.file].chunks ELSE Pages[r.file].chunks

\* C11: an ingestion request (/upload, /add-website) whose sequence of chunks
\* to store is empty is answered with a client error (400) and adds nothing
\* to the store; and every successful ingestion reports a count of at least 1
\* that is the number of chunks it added to the store.
C11_EmptyBatchIsClientError ==
  \A r \in Requests :
    Ingested(r) =>
      /\ ( /\ r.file \in DOMAIN Files \cup DOMAIN Pages
           /\ ChunksToStore(r) = <<>>
           /\ r.res.status # 500 )
         => r.res.status = 400 /\ r.stored = 0
      /\ r.res.status = 200
         => r.res.body.chunks >= 1 /\ r.res.body.chunks = r.stored

\* activation r has answered a /query whose similarity search was called
Searched(r) == Done(r, "query") /\ r.searches = 1

\* what C12 says of reset and of /stats: the store is empty when /clear has
\* answered, whatever it held before, and /stats reports the store's size
ResetEmptiesStore ==
  \A r \in Requests :
    /\ Done(r, "clear") => r.res.status = 200 /\ vectorStore = <<>>
    /\ Done(r, "stats") =>
         r.res.status = 200 /\ r.res.body.totalChunks = Len(vectorStore)

WordChars ==
  {"a", "b", "c", "d", "e", "f", "g", "h", "i", "j", "k", "l", "m", "n", "o",
   "p", "q", "r", "s", "t", "u", "v", "w", "x", "y", "z",
   "0", "1", "2", "3", "4", "5", "6", "7", "8", "9"}

\* the lowercase words of a question: its maximal runs of word characters
wordsOf(question) ==
  SelectSeq(split([i \in DOMAIN question |->
                     IF toLowerCaseChar(question[i]) \in WordChars
                     THEN toLowerCaseChar(question[i])
                     ELSE " "]),
            LAMBDA word : word # <<>>)

\* the significant tokens C13 names: the lowercase words longer than 3, which
\* for "What is the refund policy?" are what, refund and policy
SignificantTokens(question) ==
  {wordsOf(question)[i] : i \in {j \in DOMAIN wordsOf(question) :
                                   Len(wordsOf(question)[j]) > MinWordLength}}

KeptByTokenAndLength(id, question) ==
  /\ \E word \in SignificantTokens(question) :
        includes(toLowerCase(pageContent(id)), word)
  /\ Len(trim(pageContent(id))) > MinContentLength

\* C13: the relevance filter of /generate-answer keeps a retrieved chunk
\* exactly when its lowercased text contains one of the question's lowercase
\* words longer than 3 characters and its trimmed text is longer than 50
\* characters, the words of "What is the refund policy?" being what, refund
\* and policy; the survivors keep the order of the retrieved chunks.
C13_FilterKeepsByTokenAndLength ==
  \A r \in Requests :
    r.kind = "answer" =>
      r.relevantDocs =
        SelectSeq(r.sourceDocs, LAMBDA id : KeptByTokenAndLength(id, r.question))

\* activation r is an ingestion request whose handler has ended
IngestionEnded(r) ==
  r.kind \in {"upload", "website"} /\ r.pc \in {"done", "hung"}

\* C14: once /clear has answered, the store holds only chunks of ingestion
\* requests received after that clear: an ingestion request that was in
\* flight when /clear answered appends nothing to the store afterwards.
C14_NoBatchOfEarlierRequestAfterClear ==
  \A r \in Requests :
    (IngestionEnded(r) /\ r.overtaken) => r.stored = 0

\* C15: every /upload request ends with exactly one response, and when that
\* response is an error (400 or 500) the request has left no chunk in the
\* store: no failing step (loading, splitting, adding, deleting the temporary
\* file) leaves chunks behind or leaves the request unanswered.
C15_UploadAnswersAndErrorsStoreNothing ==
  \A r \in Requests :
    (r.kind = "upload" /\ r.pc \in {"done", "hung"}) =>
      /\ r.pc = "done"
      /\ r.res.status \in {200, 400, 500}
      /\ r.res.status \in {400, 500} => r.stored = 0

====
